---- MODULE Spec2Model ----
(***************************************************************************)
(* Model of src/src/update_confluence.py: the table mutator                *)
(* update_version_in_cell and the fetch / mutate / publish sequence of     *)
(* update_confluence_page run against a remote page store.                 *)
(*                                                                         *)
(* Strings are sequences of one-character strings, so that lower(),        *)
(* upper() and strip() are computed rather than assumed.  A document is    *)
(* the sequence of <tr> rows of its first table; a row is the sequence of  *)
(* its <th>/<td> cells; a cell carries its tag, its rowspan attribute,     *)
(* whether its text sits in a <p> element, and its single text node.       *)
(* The alphabet is ASCII letters, digits, "." and whitespace: on it         *)
(* lower() and upper() induce the same equivalence of names.                *)
(*                                                                         *)
(* The remote service is outside the repository: get_page_by_id and        *)
(* update_page are answered atomically, or fail leaving the page as it was. *)
(***************************************************************************)
EXTENDS Integers, Sequences, FiniteSets, TLC

VARIABLES
    soup,         \* the parsed document handed to update_version_in_cell (mutated in place)
    input,        \* ghost: the document as it was before the first call
    after1,       \* ghost: the document as it was after the first call
    args,         \* [environment, component, new_version] of the calls made
    outcome,      \* how each call made so far ended, in order
    remote,       \* the remote page: [title, body]
    pc,           \* per invocation of update_confluence_page: its position
    cli,          \* per invocation: its command line arguments
    local,        \* per invocation: what it holds in memory (see NoLocal)
    calls,        \* per invocation: the remote calls it has issued, in order
    history       \* ghost: the remote calls that were applied, in order

vars == <<soup, input, after1, args, outcome,
          remote, pc, cli, local, calls, history>>

cellVars == <<soup, input, after1, args, outcome>>
pageVars == <<remote, pc, cli, local, calls, history>>

-----------------------------------------------------------------------------
(* Bounds of the model *)

MaxCols == 2      \* component columns of a table
MaxRows == 2      \* data rows of a table
NumProcs == 2     \* concurrent invocations of update_confluence_page

-----------------------------------------------------------------------------
(* Strings *)

Lowers == <<"a","b","c","d","e","f","g","h","i","j","k","l","m",
            "n","o","p","q","r","s","t","u","v","w","x","y","z">>
Uppers == <<"A","B","C","D","E","F","G","H","I","J","K","L","M",
            "N","O","P","Q","R","S","T","U","V","W","X","Y","Z">>

Whitespace == {" ", "\t", "\n"}

Chars == {Lowers[i] : i \in 1..Len(Lowers)} \cup {Uppers[i] : i \in 1..Len(Uppers)}
           \cup Whitespace \cup {"0", "1", "2", "3", "4", "5", "6", "7", "8", "9", "."}

LowerChar(c) ==
    IF \E i \in 1..Len(Uppers) : Uppers[i] = c
    THEN Lowers[CHOOSE i \in 1..Len(Uppers) : Uppers[i] = c]
    ELSE c

UpperChar(c) ==
    IF \E i \in 1..Len(Lowers) : Lowers[i] = c
    THEN Uppers[CHOOSE i \in 1..Len(Lowers) : Lowers[i] = c]
    ELSE c

LowerMap == [c \in Chars |-> LowerChar(c)]
UpperMap == [c \in Chars |-> UpperChar(c)]

\* str.lower()
lower(s) == [i \in 1..Len(s) |-> LowerMap[s[i]]]

\* str.upper()
upper(s) == [i \in 1..Len(s) |-> UpperMap[s[i]]]

SetMin(S) == CHOOSE x \in S : \A y \in S : x <= y
SetMax(S) == CHOOSE x \in S : \A y \in S : x >= y

\* str.strip(): leading and trailing whitespace removed, inner whitespace kept
strip(s) ==
    LET keep == {i \in 1..Len(s) : s[i] \notin Whitespace}
    IN  IF keep = {} THEN <<>> ELSE SubSeq(s, SetMin(keep), SetMax(keep))

-----------------------------------------------------------------------------
(* Documents *)

Cell(tag, rowspan, p, text) ==
    [tag |-> tag, rowspan |-> rowspan, p |-> p, text |-> text]

\* Tag.get_text(strip=True) of a cell holding one text node
get_text(cell) == strip(cell.text)

\* positions, in document order, of the cells of a row whose tag is in tags
TagPositions(row, tags) ==
    SelectSeq([i \in 1..Len(row) |-> i], LAMBDA i : row[i].tag \in tags)

\* row.find_all(tags)
find_all(row, tags) == SelectSeq(row, LAMBDA c : c.tag \in tags)

-----------------------------------------------------------------------------
(* update_version_in_cell *)

None == 0

IsPrefix(a, b) == Len(a) <= Len(b) /\ SubSeq(b, 1, Len(a)) = a

\* variant: the cell text need only start with the component asked for
component_matches_prefix(cell, component) ==
    IsPrefix(lower(component), lower(get_text(cell)))

\* variant: the comparison keeps the case
component_matches_cased(cell, component) ==
    get_text(cell) = component

\* the comparison of the header loop: cell text stripped, both sides lower-cased
component_matches(cell, component) ==
    lower(get_text(cell)) = lower(component)

\* variant: the cell text need only start with the environment asked for
environment_matches_prefix(env_cell, environment) ==
    IsPrefix(upper(environment), upper(get_text(env_cell)))

\* the comparison of the row loop: cell text stripped, both sides upper-cased
environment_matches(env_cell, environment) ==
    upper(get_text(env_cell)) = upper(environment)

\* the header loop: i + 1 for the first matching cell of the second header
\* row (i counted from 0), None without a match
component_index(header_row, component) ==
    LET cells == find_all(header_row, {"th", "td"})
        hits  == {i \in 1..Len(cells) : component_matches(cells[i], component)}
    IN  IF hits = {} THEN None ELSE SetMin(hits)

\* the row loop: the first row from the third onward whose first th/td cell
\* matches, None without a match
matched_row(rows, environment) ==
    LET hits == {r \in 3..Len(rows) :
                    /\ TagPositions(rows[r], {"th", "td"}) # <<>>
                    /\ environment_matches(
                           rows[r][TagPositions(rows[r], {"th", "td"})[1]],
                           environment)}
    IN  IF hits = {} THEN None ELSE SetMin(hits)

\* row.find_all(["td"])[component_index - 1]: the position in the row of the
\* cell selected, None when the list is too short (IndexError)
target_cell(row, cidx) ==
    LET tds == TagPositions(row, {"td"})
    IN  IF cidx > Len(tds) THEN None ELSE tds[cidx]

Ended(status, name, doc, cidx, r, pos) ==
    [status |-> status, name |-> name, soup |-> doc,
     component_index |-> cidx, row |-> r, cell |-> pos]

\* The whole function.  status is "ok" (the document returned is the mutated
\* soup), "ComponentNotFound" / "EnvironmentNotFound" (the two ValueErrors,
\* name being the name the message quotes), or "IndexError" /
\* "AttributeError" (escaping from the header_rows[1], find_all(...)[k] and
\* target_cell.p.string expressions).
update_version_in_cell(doc, environment, component, new_version) ==
    IF Len(doc) < 2
    THEN Ended("IndexError", <<>>, doc, None, None, None)
    ELSE
    LET cidx == component_index(doc[2], component) IN
    IF cidx = None
    THEN Ended("ComponentNotFound", component, doc, None, None, None)
    ELSE
    LET r == matched_row(doc, environment) IN
    IF r = None
    THEN Ended("EnvironmentNotFound", environment, doc, cidx, None, None)
    ELSE
    LET pos == target_cell(doc[r], cidx) IN
    IF pos = None
    THEN Ended("IndexError", <<>>, doc, cidx, r, None)
    ELSE IF ~doc[r][pos].p
    THEN Ended("AttributeError", <<>>, doc, cidx, r, pos)
    ELSE Ended("ok", <<>>,
               [doc EXCEPT ![r][pos].text = new_version], cidx, r, pos)

-----------------------------------------------------------------------------
(* str(soup) and BeautifulSoup(page_content, "html.parser") *)

OpenTag(cell) ==
    CASE cell.tag = "th" /\ cell.rowspan = 2 -> "<th rowspan=2>"
      [] cell.tag = "th" /\ cell.rowspan # 2 -> "<th>"
      [] cell.tag = "td" /\ cell.rowspan = 2 -> "<td rowspan=2>"
      [] OTHER -> "<td>"

CloseTag(cell) == IF cell.tag = "th" THEN "</th>" ELSE "</td>"

RECURSIVE Flatten(_)
Flatten(ss) == IF ss = <<>> THEN <<>> ELSE Head(ss) \o Flatten(Tail(ss))

serialize_cell(cell) ==
    <<OpenTag(cell)>>
    \o (IF cell.p THEN <<"<p>">> \o cell.text \o <<"</p>">> ELSE cell.text)
    \o <<CloseTag(cell)>>

serialize_row(row) ==
    <<"<tr>">> \o Flatten([i \in 1..Len(row) |-> serialize_cell(row[i])]) \o <<"</tr>">>

\* str(soup): the markup of the table, one token per tag and per character
serialize(doc) == Flatten([r \in 1..Len(doc) |-> serialize_row(doc[r])])

\* the pieces of toks that end with one of the tokens of closers, closer dropped
RECURSIVE SplitClosed(_, _, _)
SplitClosed(toks, closers, piece) ==
    IF toks = <<>> THEN <<>>
    ELSE IF Head(toks) \in closers
         THEN <<piece>> \o SplitClosed(Tail(toks), closers, <<>>)
         ELSE SplitClosed(Tail(toks), closers, Append(piece, Head(toks)))

parse_cell(toks) ==
    LET open == Head(toks)
        tag  == IF open \in {"<th>", "<th rowspan=2>"} THEN "th" ELSE "td"
        rs   == IF open \in {"<th rowspan=2>", "<td rowspan=2>"} THEN 2 ELSE 1
        rest == Tail(toks)
        p    == rest # <<>> /\ Head(rest) = "<p>"
    IN  Cell(tag, rs, p, IF p THEN SubSeq(rest, 2, Len(rest) - 1) ELSE rest)

parse_row(toks) ==
    LET cells == SplitClosed(Tail(toks), {"</th>", "</td>"}, <<>>)
    IN  [i \in 1..Len(cells) |-> parse_cell(cells[i])]

\* BeautifulSoup(page_content, "html.parser"), as far as the table goes
parse(body) ==
    LET rows == SplitClosed(body, {"</tr>"}, <<>>)
    IN  [r \in 1..Len(rows) |-> parse_row(rows[r])]

-----------------------------------------------------------------------------
(* The documents and arguments the calls are made with *)

EnvironmentLabel == <<"E">>
ComponentsLabel  == <<"A">>
OldVersion       == <<"1">>

CompTexts == { <<"c","1">>, <<" ","C","1"," ">>, <<"c","2">> }
EnvTexts  == { <<"D","V">>, <<" ","d","v","\n">>, <<"P","D">> }

CompRequests == { <<"C","1">>, <<"c","1"," ">>, <<"c">> }
EnvRequests  == { <<"d","v">>, <<" ","D","V">>, <<"D">> }
NewVersions  == { <<"2">> }

\* sequences of length n over S
SeqsOfLen(S, n) == [1..n -> S]

\* Row 0 is the decorative header.  Either its first cell spans both header
\* rows (rowspan = 2, the layout of the repository's test page) and row 1
\* holds the component cells only, or it does not and row 1 starts with a
\* label cell of its own.
HeaderRows(n) ==
    { << <<Cell("th", rs, FALSE, EnvironmentLabel),
           Cell("th", 1, FALSE, ComponentsLabel)>>,
         (IF rs = 2 THEN <<>> ELSE <<Cell("th", 1, FALSE, EnvironmentLabel)>>)
           \o [i \in 1..n |-> Cell("td", 1, FALSE, names[i])] >> :
        rs \in {1, 2}, names \in SeqsOfLen(CompTexts, n) }

\* A data row: the environment cell, th with bare text or td with its text in
\* a paragraph, then one td per component holding a paragraph.
DataRows(n) ==
    { <<Cell(tag, 1, tag = "td", env)>>
        \o [i \in 1..n |-> Cell("td", 1, TRUE, OldVersion)] :
        tag \in {"th", "td"}, env \in EnvTexts }

NoArgs == [environment |-> <<>>, component |-> <<>>, new_version |-> <<>>]

\* what a call leaves behind besides the document: how it ended, the name its
\* error message quotes, and the index, row and cell its log lines report
Report(res) ==
    [status |-> res.status, name |-> res.name,
     component_index |-> res.component_index, row |-> res.row, cell |-> res.cell]

-----------------------------------------------------------------------------
(* Calls of update_version_in_cell on one document *)

IdlePage ==
    /\ remote = [title |-> <<>>, body |-> <<>>]
    /\ pc = <<>>
    /\ cli = <<>>
    /\ local = <<>>
    /\ calls = <<>>
    /\ history = <<>>

InitCell ==
    /\ \E n \in 1..MaxCols, m \in 0..MaxRows :
          \E h \in HeaderRows(n), body \in SeqsOfLen(DataRows(n), m) :
             soup = h \o body
    /\ input = soup
    /\ after1 = soup
    /\ args = NoArgs
    /\ outcome = <<>>
    /\ IdlePage

\* the first call, with any arguments
Call(environment, component, new_version) ==
    /\ outcome = <<>>
    /\ LET res == update_version_in_cell(soup, environment, component, new_version)
       IN  /\ soup' = res.soup
           /\ after1' = res.soup
           /\ outcome' = <<Report(res)>>
    /\ args' = [environment |-> environment, component |-> component,
                new_version |-> new_version]
    /\ UNCHANGED <<input, pageVars>>

\* the same call made again on the document the first call left
CallAgain ==
    /\ Len(outcome) = 1
    /\ LET res == update_version_in_cell(soup, args.environment, args.component,
                                         args.new_version)
       IN  /\ soup' = res.soup
           /\ outcome' = Append(outcome, Report(res))
    /\ UNCHANGED <<input, after1, args, pageVars>>

NextCell ==
    \/ \E e \in EnvRequests, c \in CompRequests, v \in NewVersions : Call(e, c, v)
    \/ CallAgain

SpecCell == InitCell /\ [][NextCell]_vars


-----------------------------------------------------------------------------
(* update_confluence_page against the remote page *)

PAGE_ID == "123456"
DefaultPageTitle == <<"D","e","f">>
NoTitle == <<>>

Procs == 1..NumProcs

PageTitles == { <<"T">>, NoTitle }

\* the pages the remote store starts with: the layout of the repository's
\* test page, two components and two environments, the environment cells
\* th or td
PageTables ==
    { << <<Cell("th", 2, FALSE, EnvironmentLabel), Cell("th", 1, FALSE, ComponentsLabel)>>,
         <<Cell("td", 1, FALSE, <<"c","1">>), Cell("td", 1, FALSE, <<"c","2">>)>>,
         <<Cell(tag, 1, tag = "td", <<"D","V">>),
           Cell("td", 1, TRUE, OldVersion), Cell("td", 1, TRUE, OldVersion)>>,
         <<Cell(tag, 1, tag = "td", <<"P","D">>),
           Cell("td", 1, TRUE, OldVersion), Cell("td", 1, TRUE, OldVersion)>> >> :
      tag \in {"th", "td"} }

\* the command lines of the invocations: two naming different cells of the
\* DV row, one naming an environment and one a component the page lacks
Args(environment, component, new_version) ==
    [environment |-> environment, component |-> component, new_version |-> new_version]

CliArgs ==
    { Args(<<"d","v">>, <<"C","1">>, <<"2">>),
      Args(<<"d","v">>, <<"c","2">>, <<"2">>),
      Args(<<"q","a">>, <<"C","1">>, <<"2">>),
      Args(<<"d","v">>, <<"c","3">>, <<"2">>) }

\* what an invocation holds: the document and title fetched, the exception
\* that ended it and the step it was raised at, and (ghost) the page as it was
\* fetched and the row and cell its "Updated cell" log line is about
NoLocal == [soup |-> <<>>, title |-> <<>>, error |-> "none", at |-> "none",
            fetched |-> [title |-> <<>>, body |-> <<>>], row |-> None, cell |-> None]

IdleCell ==
    /\ soup = <<>>
    /\ input = <<>>
    /\ after1 = <<>>
    /\ args = NoArgs
    /\ outcome = <<>>

Init ==
    /\ \E t \in PageTables, title \in PageTitles :
          remote = [title |-> title, body |-> serialize(t)]
    /\ pc = [p \in Procs |-> "fetch"]
    /\ cli \in [Procs -> CliArgs]
    /\ local = [p \in Procs |-> NoLocal]
    /\ calls = [p \in Procs |-> <<>>]
    /\ history = <<>>
    /\ IdleCell

GetCall == [op |-> "get_page_by_id", page_id |-> PAGE_ID, expand |-> "body.storage,title",
            title |-> <<>>, body |-> <<>>, minor_edit |-> FALSE]

\* variant: the update is not flagged as a minor edit
UpdateCallMajor(title, body) ==
    [op |-> "update_page", page_id |-> PAGE_ID, expand |-> "",
     title |-> title, body |-> body, minor_edit |-> FALSE]

UpdateCall(title, body) ==
    [op |-> "update_page", page_id |-> PAGE_ID, expand |-> "",
     title |-> title, body |-> body, minor_edit |-> TRUE]

\* get_page_content: the page is read and parsed; a missing title is
\* replaced by the default
get_page_content(page) ==
    [soup |-> parse(page.body),
     title |-> IF page.title = NoTitle THEN DefaultPageTitle ELSE page.title]

\* line 122, the request answered
Fetch(p) ==
    /\ pc[p] = "fetch"
    /\ calls' = [calls EXCEPT ![p] = Append(@, GetCall)]
    /\ local' = [local EXCEPT ![p].soup = get_page_content(remote).soup,
                              ![p].title = get_page_content(remote).title,
                              ![p].fetched = remote]
    /\ pc' = [pc EXCEPT ![p] = "mutate"]
    /\ history' = Append(history, <<p, "get_page_by_id">>)
    /\ UNCHANGED <<remote, cli, cellVars>>

\* line 122, the request failing: the exception leaves update_confluence_page
FetchFails(p) ==
    /\ pc[p] = "fetch"
    /\ calls' = [calls EXCEPT ![p] = Append(@, GetCall)]
    /\ local' = [local EXCEPT ![p].error = "RequestException", ![p].at = "fetch"]
    /\ pc' = [pc EXCEPT ![p] = "failed"]
    /\ UNCHANGED <<remote, cli, history, cellVars>>

\* variant: the exception of update_version_in_cell is swallowed and the
\* document fetched is published as it is
MutateSwallowsError(p) ==
    /\ pc[p] = "mutate"
    /\ LET res == update_version_in_cell(local[p].soup, cli[p].environment,
                                         cli[p].component, cli[p].new_version)
       IN  IF res.status = "ok"
           THEN local' = [local EXCEPT ![p].soup = res.soup,
                                       ![p].row = res.row, ![p].cell = res.cell]
           ELSE local' = [local EXCEPT ![p].error = res.status, ![p].at = "mutate"]
    /\ pc' = [pc EXCEPT ![p] = "publish"]
    /\ UNCHANGED <<remote, cli, calls, history, cellVars>>

\* lines 123-124: the document in memory is mutated, or the exception of
\* update_version_in_cell leaves update_confluence_page
Mutate(p) ==
    /\ pc[p] = "mutate"
    /\ LET res == update_version_in_cell(local[p].soup, cli[p].environment,
                                         cli[p].component, cli[p].new_version)
       IN  IF res.status = "ok"
           THEN /\ local' = [local EXCEPT ![p].soup = res.soup,
                                          ![p].row = res.row, ![p].cell = res.cell]
                /\ pc' = [pc EXCEPT ![p] = "publish"]
           ELSE /\ local' = [local EXCEPT ![p].error = res.status, ![p].at = "mutate"]
                /\ pc' = [pc EXCEPT ![p] = "failed"]
    /\ UNCHANGED <<remote, cli, calls, history, cellVars>>

\* variant: the body sent is not the one the remote page takes
PublishKeepsBody(p) ==
    /\ pc[p] = "publish"
    /\ calls' = [calls EXCEPT ![p] =
                    Append(@, UpdateCall(local[p].title, serialize(local[p].soup)))]
    /\ remote' = [title |-> local[p].title, body |-> remote.body]
    /\ pc' = [pc EXCEPT ![p] = "done"]
    /\ history' = Append(history, <<p, "update_page">>)
    /\ UNCHANGED <<local, cli, cellVars>>

\* lines 125-130, the request answered: the remote page takes the body and
\* the title sent
Publish(p) ==
    /\ pc[p] = "publish"
    /\ LET body == serialize(local[p].soup)
       IN  /\ calls' = [calls EXCEPT ![p] = Append(@, UpdateCall(local[p].title, body))]
           /\ remote' = [title |-> local[p].title, body |-> body]
    /\ pc' = [pc EXCEPT ![p] = "done"]
    /\ history' = Append(history, <<p, "update_page">>)
    /\ UNCHANGED <<local, cli, cellVars>>

\* lines 125-130, the request failing: the remote page is left as it was
PublishFails(p) ==
    /\ pc[p] = "publish"
    /\ calls' = [calls EXCEPT ![p] =
                    Append(@, UpdateCall(local[p].title, serialize(local[p].soup)))]
    /\ local' = [local EXCEPT ![p].error = "RequestException", ![p].at = "publish"]
    /\ pc' = [pc EXCEPT ![p] = "failed"]
    /\ UNCHANGED <<remote, cli, history, cellVars>>

Next ==
    \E p \in Procs :
        \/ Fetch(p)
        \/ FetchFails(p)
        \/ Mutate(p)
        \/ Publish(p)
        \/ PublishFails(p)

Spec == Init /\ [][Next]_vars

-----------------------------------------------------------------------------
(* Vocabulary of the properties, stated without the operators above *)

\* x and y are the same character up to case
SameLetter(x, y) ==
    x = y \/ \E k \in 1..Len(Lowers) : {x, y} = {Lowers[k], Uppers[k]}

\* a and b are equal case-insensitively
EqualIgnoringCase(a, b) ==
    Len(a) = Len(b) /\ \A i \in 1..Len(a) : SameLetter(a[i], b[i])

\* s without its leading, its trailing, its surrounding whitespace
RECURSIVE DropLeading(_)
DropLeading(s) ==
    IF s # <<>> /\ Head(s) \in Whitespace THEN DropLeading(Tail(s)) ELSE s

RECURSIVE DropTrailing(_)
DropTrailing(s) ==
    IF s # <<>> /\ s[Len(s)] \in Whitespace
    THEN DropTrailing(SubSeq(s, 1, Len(s) - 1))
    ELSE s

Trimmed(s) == DropTrailing(DropLeading(s))

\* the requested name equals the cell's trimmed text, case-insensitively
CellNamed(cell, request) == EqualIgnoringCase(Trimmed(cell.text), request)

\* the requested name, trimmed as well, equals the cell's trimmed text,
\* case-insensitively
CellNamedTrimmed(cell, request) == CellNamed(cell, Trimmed(request))

\* the document before and after the k-th call
Before(k) == IF k = 1 THEN input ELSE after1
After(k)  == IF k = 1 THEN after1 ELSE soup

CallsMade == 1..Len(outcome)

\* the header cells naming the component, the data rows naming the environment
HeaderHits(doc, component) ==
    {i \in 1..Len(doc[2]) : CellNamed(doc[2][i], component)}
RowHits(doc, environment) ==
    {r \in 3..Len(doc) : CellNamed(doc[r][1], environment)}

\* the table column (from 0) of the i-th cell of row r: a cell of the second
\* header row is pushed right by the cells of the first that span both rows
SpannedColumns(doc) == {j - 1 : j \in {j \in 1..Len(doc[1]) : doc[1][j].rowspan = 2}}
ColumnOf(doc, r, i) ==
    IF r = 2
    THEN LET free == (0..(Len(doc[1]) + Len(doc[2]))) \ SpannedColumns(doc)
         IN  CHOOSE c \in free : Cardinality({d \in free : d < c}) = i - 1
    ELSE i - 1

\* the cells of the whole document, as <<row, position>>
CellsOf(doc) == {<<r, i>> \in (1..Len(doc)) \X (1..(MaxCols + 2)) : i <= Len(doc[r])}

\* doc2 is doc1 but for the text of the cells in changed
SameBut(doc1, doc2, changed) ==
    /\ Len(doc1) = Len(doc2)
    /\ \A r \in 1..Len(doc1) : Len(doc1[r]) = Len(doc2[r])
    /\ \A rc \in CellsOf(doc1) :
          /\ doc2[rc[1]][rc[2]].tag = doc1[rc[1]][rc[2]].tag
          /\ doc2[rc[1]][rc[2]].p = doc1[rc[1]][rc[2]].p
          /\ doc2[rc[1]][rc[2]].rowspan = doc1[rc[1]][rc[2]].rowspan
          /\ rc \notin changed => doc2[rc[1]][rc[2]].text = doc1[rc[1]][rc[2]].text

\* the intersection of the first row naming the environment and the column of
\* the first header cell naming the component
Intersection(doc, environment, component) ==
    LET r == SetMin(RowHits(doc, environment))
        c == ColumnOf(doc, 2, SetMin(HeaderHits(doc, component)))
    IN  <<r, c + 1>>

ValidPair(doc, environment, component) ==
    /\ HeaderHits(doc, component) # {}
    /\ RowHits(doc, environment) # {}
    /\ Intersection(doc, environment, component)[2] <= Len(doc[Intersection(doc, environment, component)[1]])

-----------------------------------------------------------------------------
(* C1: for a well-formed table and a pair naming a data row and a header    *)
(* column, the call succeeds and the document differs from the input in     *)
(* exactly one place: the cell where the first row naming the environment   *)
(* meets the column of the first header cell naming the component holds     *)
(* new_version; no other cell's text differs.                               *)
C1_ExactlyTargetCell ==
    \A k \in CallsMade :
        ValidPair(Before(k), args.environment, args.component) =>
            LET t == Intersection(Before(k), args.environment, args.component)
            IN  /\ outcome[k].status = "ok"
                /\ After(k)[t[1]][t[2]].text = args.new_version
                /\ SameBut(Before(k), After(k), {t})


(* C2: a component naming no cell of the second header row ends the call in *)
(* the component-not-found error, its message quoting the component, with   *)
(* the document as it was, whatever the environment.                        *)
C2_ComponentNotFound ==
    \A k \in CallsMade :
        HeaderHits(Before(k), args.component) = {} =>
            /\ outcome[k].status = "ComponentNotFound"
            /\ outcome[k].name = args.component
            /\ After(k) = Before(k)

\* reached: a component that is a proper prefix of a header cell is refused
\* although the environment names a data row
C2_Witness ==
    /\ outcome # <<>>
    /\ outcome[1].status = "ComponentNotFound"
    /\ args.component = <<"c">>
    /\ RowHits(input, args.environment) # {}
    /\ \E i \in 1..Len(input[2]) : input[2][i].text = <<"c","1">>

(* C3: with a component the second header row names, an environment naming  *)
(* the first cell of no row from the third onward ends the call in the      *)
(* environment-not-found error, its message quoting the environment, with   *)
(* the document as it was.                                                  *)
C3_EnvironmentNotFound ==
    \A k \in CallsMade :
        (/\ HeaderHits(Before(k), args.component) # {}
         /\ RowHits(Before(k), args.environment) = {}) =>
            /\ outcome[k].status = "EnvironmentNotFound"
            /\ outcome[k].name = args.environment
            /\ After(k) = Before(k)

\* reached: an environment that is a proper prefix of a row's label is
\* refused although the component is found
C3_Witness ==
    /\ outcome # <<>>
    /\ outcome[1].status = "EnvironmentNotFound"
    /\ args.environment = <<"D">>
    /\ outcome[1].component_index # None
    /\ \E r \in 3..Len(input) : input[r][1].text = <<"D","V">>

(* C4 as claimed: both lookups pick the first cell whose text equals the    *)
(* requested name once BOTH are trimmed and case is ignored, and find       *)
(* nothing exactly when there is no such cell.                              *)
C4_TrimBothSides ==
    \A k \in CallsMade :
        LET cols == {i \in 1..Len(Before(k)[2]) :
                        CellNamedTrimmed(Before(k)[2][i], args.component)}
            rows == {r \in 3..Len(Before(k)) :
                        CellNamedTrimmed(Before(k)[r][1], args.environment)}
        IN  /\ outcome[k].component_index = IF cols = {} THEN None ELSE SetMin(cols)
            /\ cols # {} => outcome[k].row = IF rows = {} THEN None ELSE SetMin(rows)

(* C4 amended: both lookups pick the first cell whose TRIMMED text equals   *)
(* the requested name AS GIVEN, case ignored, and find nothing exactly when *)
(* there is no such cell; never a substring.                                *)
C4_TrimCellOnly ==
    \A k \in CallsMade :
        LET cols == HeaderHits(Before(k), args.component)
            rows == RowHits(Before(k), args.environment)
        IN  /\ outcome[k].component_index = IF cols = {} THEN None ELSE SetMin(cols)
            /\ cols # {} => outcome[k].row = IF rows = {} THEN None ELSE SetMin(rows)

\* reached: "dv" found the row labelled "DV" and "C1" the column whose cell
\* reads " C1 " with surrounding whitespace
C4_Witness ==
    /\ outcome # <<>>
    /\ outcome[1].row # None
    /\ args.environment = <<"d","v">>
    /\ input[outcome[1].row][1].text = <<"D","V">>
    /\ args.component = <<"C","1">>
    /\ input[2][outcome[1].component_index].text = <<" ","C","1"," ">>

(* C7: the same update applied to the result of a first, successful         *)
(* application succeeds again and leaves the document the first left.       *)
C7_Idempotent ==
    (/\ Len(outcome) = 2
     /\ ValidPair(input, args.environment, args.component)
     /\ outcome[1].status = "ok") =>
        /\ outcome[2].status = "ok"
        /\ soup = after1

(* C8: whatever the tag of the environment cell of the matched row, the     *)
(* cell written is the one at position component_index - 1 among the cells  *)
(* after the first, and the environment cell is not written.  The position  *)
(* is computed from the texts alone, so two tables differing only in the    *)
(* tag of that cell have the same cell written.                             *)
C8_FirstCellIsRowHeader ==
    \A k \in CallsMade :
        (/\ HeaderHits(Before(k), args.component) # {}
         /\ RowHits(Before(k), args.environment) # {}) =>
            LET r   == SetMin(RowHits(Before(k), args.environment))
                pos == SetMin(HeaderHits(Before(k), args.component)) + 1
            IN  /\ After(k)[r][1].text = Before(k)[r][1].text
                /\ pos <= Len(Before(k)[r]) =>
                      /\ outcome[k].status = "ok"
                      /\ outcome[k].cell = pos

-----------------------------------------------------------------------------
(* Properties of update_confluence_page *)

\* the position in history of invocation p's call op, 0 when it was not applied
Applied(p, op) ==
    IF \E i \in 1..Len(history) : history[i] = <<p, op>>
    THEN CHOOSE i \in 1..Len(history) : history[i] = <<p, op>>
    ELSE 0

UpdatesApplied == {i \in 1..Len(history) : history[i][2] = "update_page"}

TitleFetched(page) == IF page.title = NoTitle THEN DefaultPageTitle ELSE page.title

(* C5: an invocation issues the fetch first and at most one update after    *)
(* it; one that succeeded issued exactly the fetch and then one update      *)
(* carrying the configured page id, the title the fetch returned, the       *)
(* serialized result of update_version_in_cell on the page fetched (with    *)
(* new_version in the cell it wrote) and minor_edit set.                    *)
C5_FetchThenOneUpdate ==
    \A p \in Procs :
        /\ Len(calls[p]) <= 2
        /\ Len(calls[p]) >= 1 => calls[p][1].op = "get_page_by_id"
        /\ Len(calls[p]) = 2 => calls[p][2].op = "update_page"
        /\ pc[p] = "done" =>
              LET res == update_version_in_cell(parse(local[p].fetched.body),
                             cli[p].environment, cli[p].component, cli[p].new_version)
              IN  /\ res.status = "ok"
                  /\ Len(calls[p]) = 2
                  /\ calls[p][2].page_id = "123456"
                  /\ calls[p][2].title = TitleFetched(local[p].fetched)
                  /\ calls[p][2].body = serialize(res.soup)
                  /\ calls[p][2].minor_edit = TRUE
                  /\ parse(calls[p][2].body)[res.row][res.cell].text = cli[p].new_version

\* reached: an invocation finished after fetching a titled page
C5_Witness ==
    \E p \in Procs : pc[p] = "done" /\ local[p].fetched.title = <<"T">>

\* p and q both succeeded on different cells, both fetched before any update
\* was applied, and q's update is the last one applied
Raced(p, q) ==
    /\ p # q
    /\ pc[p] = "done" /\ pc[q] = "done"
    /\ <<local[p].row, local[p].cell>> # <<local[q].row, local[q].cell>>
    /\ \A i \in UpdatesApplied :
          Applied(p, "get_page_by_id") < i /\ Applied(q, "get_page_by_id") < i
    /\ Applied(q, "update_page") = Len(history)

(* C6: when two successful invocations on different cells both fetched      *)
(* before either update was applied, the page left by the later update      *)
(* holds the later writer's version in its cell and, in the earlier         *)
(* writer's cell, the value that cell had when fetched: the earlier update  *)
(* is lost although both invocations succeeded.                             *)
C6_LastWriteWins ==
    \A p, q \in Procs :
        Raced(p, q) =>
            LET page == parse(remote.body)
                old  == parse(local[p].fetched.body)
            IN  /\ page[local[q].row][local[q].cell].text = cli[q].new_version
                /\ page[local[p].row][local[p].cell].text
                      = old[local[p].row][local[p].cell].text
                /\ page[local[p].row][local[p].cell].text # cli[p].new_version

\* reached: the race, with both invocations done
C6_Witness ==
    \E p, q \in Procs : Raced(p, q)

(* C10: every failure is fatal and leaves the remote page as it was.  A     *)
(* failed invocation takes no further step and issues no further call; one  *)
(* whose fetch or lookup failed has issued no update call; one whose update *)
(* call failed has issued exactly one and the page is unchanged by it; and  *)
(* the remote page changes only in the step in which an invocation whose    *)
(* fetch and lookup succeeded completes its single update call.             *)
C10_FailuresAreFatal ==
    [][ /\ \A p \in Procs :
              /\ pc[p] = "failed" => (pc'[p] = "failed" /\ calls'[p] = calls[p])
              /\ local'[p].at \in {"fetch", "mutate"} =>
                    /\ pc'[p] = "failed"
                    /\ \A i \in 1..Len(calls'[p]) : calls'[p][i].op # "update_page"
              /\ (pc[p] = "publish" /\ pc'[p] = "failed") =>
                    /\ remote' = remote
                    /\ Len(calls'[p]) = 2
        /\ remote' # remote =>
              \E p \in Procs :
                  /\ pc[p] = "publish" /\ pc'[p] = "done"
                  /\ local[p].error = "none"
                  /\ Len(calls'[p]) = 2
                  /\ calls'[p][1].op = "get_page_by_id"
                  /\ calls'[p][2].op = "update_page"
                  /\ remote'.body = calls'[p][2].body
      ]_vars

\* reached: an update call failed after a successful fetch and lookup, and
\* the remote page is as it was fetched
C10_Witness ==
    \E p \in Procs :
        /\ pc[p] = "failed"
        /\ local[p].at = "publish"
        /\ remote = local[p].fetched


====
